---- MODULE Spec2Model ----
(***************************************************************************)
(* Model of prototypes/fastsam-onnx-test/models/export_model.py: a         *)
(* straight-line driver that changes directory, imports the YOLO loader,   *)
(* tests whether the checkpoint file exists, loads it by path or by        *)
(* symbolic identifier, exports the loaded model with a fixed              *)
(* configuration and prints diagnostic lines.  The filesystem outlives a   *)
(* run, so several runs of the script are modelled back to back.           *)
(*                                                                         *)
(* Paths are sequences of components; an absolute path starts with "/".    *)
(***************************************************************************)
EXTENDS Naturals, Sequences, FiniteSets

VARIABLES pc, cwd, dirs, files, installed, exists, model, result,
          trace, exports, run, history

vars == <<pc, cwd, dirs, files, installed, exists, model, result,
          trace, exports, run, history>>

\* Number of consecutive runs of the script that are explored.
MaxRuns == 3

----------------------------------------------------------------------------
\* Literals of the script

\* os.chdir('/Users/jason/.../fastsam-onnx-test/models')
chdir_target ==
    <<"/", "Users", "jason", "Desktop", "Work", "StraboMicro2",
      "prototypes", "fastsam-onnx-test", "models">>

\* model_path = '/Users/jason/.../fastsam-onnx-test/models/FastSAM-x.pt'
model_path ==
    <<"/", "Users", "jason", "Desktop", "Work", "StraboMicro2",
      "prototypes", "fastsam-onnx-test", "models", "FastSAM-x.pt">>

\* The symbolic identifier of YOLO('FastSAM-x.pt')
model_id == <<"FastSAM-x.pt">>

\* A slip in which the else branch passes the identifier, not the path
LoadArgLocalAsIdentifier == model_id

\* The argument of each of the two YOLO(...) calls
LoadArgDownload == model_id
LoadArgLocal == model_path

\* A slip in which graph simplification is left switched on
ExportConfigSimplified ==
    [format |-> "onnx", imgsz |-> 1024, opset |-> 17,
     simplify |-> TRUE, dynamic |-> FALSE]

\* The keyword arguments of model.export(...)
ExportConfig ==
    [format |-> "onnx", imgsz |-> 1024, opset |-> 17,
     simplify |-> FALSE, dynamic |-> FALSE]

\* A slip in which the `not` of the condition is lost
BranchInverted(found) == found

\* The condition of the if statement: `not os.path.exists(model_path)`
TakesDownloadBranch(found) == ~found

----------------------------------------------------------------------------
\* Path helpers (os.path semantics on component sequences)

IsAbs(p) == Len(p) > 0 /\ Head(p) = "/"

\* A relative path is resolved against the working directory.
Resolve(dir, p) == IF IsAbs(p) THEN p ELSE dir \o p

Dirname(p) == SubSeq(p, 1, Len(p) - 1)

\* os.path.exists
PathExists(p) == Resolve(cwd, p) \in files \/ Resolve(cwd, p) \in dirs

\* The artifact the exporter writes: the weights file with suffix .onnx
OnnxOf(p) == Dirname(p) \o <<"FastSAM-x.onnx">>

----------------------------------------------------------------------------
\* Events of a run, in program order

PrintLine(text, val) == [ev |-> "print", text |-> text, val |-> val]
LoadCall(arg)    == [ev |-> "load", text |-> "", val |-> arg]
LoadReturn       == [ev |-> "load_return", text |-> "", val |-> <<>>]
LoadRaise        == [ev |-> "load_raise", text |-> "", val |-> <<>>]
ExportCall       == [ev |-> "export", text |-> "", val |-> <<>>]
ExportReturn     == [ev |-> "export_return", text |-> "", val |-> <<>>]
ExportRaise      == [ev |-> "export_raise", text |-> "", val |-> <<>>]

NoModel == [type |-> "None", weights |-> <<>>]
NoResult == <<>>

\* Directory the interpreter is started from
HomeDir == <<"/", "Users", "jason">>
LaunchDirs == {HomeDir, chdir_target}

\* Filesystems a first run can meet: the models directory may be missing,
\* and a checkpoint may already lie in either directory.
InitialFiles == {model_path, HomeDir \o model_id}

Init ==
    /\ dirs \in {{HomeDir}, {HomeDir, chdir_target}}
    /\ files \in {F \in SUBSET InitialFiles : \A f \in F : Dirname(f) \in dirs}
    /\ cwd \in LaunchDirs \cap dirs
    /\ installed \in BOOLEAN
    /\ pc = "chdir"
    /\ exists = "unchecked"
    /\ model = NoModel
    /\ result = NoResult
    /\ trace = <<>>
    /\ exports = <<>>
    /\ run = 1
    /\ history = <<>>

----------------------------------------------------------------------------
\* Statements of the script

\* A slip in which the script never changes directory
ChdirOmitted ==
    /\ pc = "chdir"
    /\ pc' = "import"
    /\ UNCHANGED <<cwd, dirs, files, installed, exists, model, result,
                   trace, exports, run, history>>

\* A slip in which a missing directory is tolerated (try/except around chdir)
ChdirGuarded ==
    /\ pc = "chdir"
    /\ cwd' = IF chdir_target \in dirs THEN chdir_target ELSE cwd
    /\ pc' = "import"
    /\ UNCHANGED <<dirs, files, installed, exists, model, result,
                   trace, exports, run, history>>

\* line 3: os.chdir(...) raises FileNotFoundError when the directory is missing
Chdir ==
    /\ pc = "chdir"
    /\ IF chdir_target \in dirs
         THEN /\ cwd' = chdir_target
              /\ pc' = "import"
         ELSE /\ cwd' = cwd
              /\ pc' = "aborted"
    /\ UNCHANGED <<dirs, files, installed, exists, model, result,
                   trace, exports, run, history>>

\* line 5: from ultralytics import YOLO
Import ==
    /\ pc = "import"
    /\ pc' = IF installed THEN "check" ELSE "aborted"
    /\ UNCHANGED <<cwd, dirs, files, installed, exists, model, result,
                   trace, exports, run, history>>

\* A slip in which an artifact of an earlier run makes the script stop early
CheckWithCache ==
    /\ pc = "check"
    /\ exists' = IF PathExists(model_path) THEN "present" ELSE "absent"
    /\ pc' = IF OnnxOf(model_path) \in files THEN "done"
             ELSE IF TakesDownloadBranch(PathExists(model_path))
               THEN "print_not_found" ELSE "print_loading"
    /\ UNCHANGED <<cwd, dirs, files, installed, model, result,
                   trace, exports, run, history>>

\* lines 9-10: the existence check and the branch
Check ==
    /\ pc = "check"
    /\ exists' = IF PathExists(model_path) THEN "present" ELSE "absent"
    /\ pc' = IF TakesDownloadBranch(PathExists(model_path))
               THEN "print_not_found" ELSE "print_loading"
    /\ UNCHANGED <<cwd, dirs, files, installed, model, result,
                   trace, exports, run, history>>

\* line 11
PrintNotFound ==
    /\ pc = "print_not_found"
    /\ trace' = Append(trace, PrintLine("Model not found at ", model_path))
    /\ pc' = "print_downloading"
    /\ UNCHANGED <<cwd, dirs, files, installed, exists, model, result,
                   exports, run, history>>

\* A slip in which the "Downloading" line is dropped
PrintDownloadingDropped ==
    /\ pc = "print_downloading"
    /\ pc' = "load_id"
    /\ UNCHANGED <<cwd, dirs, files, installed, exists, model, result,
                   trace, exports, run, history>>

\* line 12
PrintDownloading ==
    /\ pc = "print_downloading"
    /\ trace' = Append(trace, PrintLine("Downloading FastSAM-x.pt...", <<>>))
    /\ pc' = "load_id"
    /\ UNCHANGED <<cwd, dirs, files, installed, exists, model, result,
                   exports, run, history>>

\* A slip in which the "Loading model from" line is printed after the load
LoadBeforePrintLoading ==
    /\ pc = "print_loading"
    /\ trace' = Append(trace, LoadCall(LoadArgLocal))
    /\ pc' = "in_load"
    /\ UNCHANGED <<cwd, dirs, files, installed, exists, model, result,
                   exports, run, history>>

\* line 16
PrintLoading ==
    /\ pc = "print_loading"
    /\ trace' = Append(trace, PrintLine("Loading model from: ", model_path))
    /\ pc' = "load_path"
    /\ UNCHANGED <<cwd, dirs, files, installed, exists, model, result,
                   exports, run, history>>

\* line 14: YOLO('FastSAM-x.pt') is entered
CallLoadById ==
    /\ pc = "load_id"
    /\ trace' = Append(trace, LoadCall(LoadArgDownload))
    /\ pc' = "in_load"
    /\ UNCHANGED <<cwd, dirs, files, installed, exists, model, result,
                   exports, run, history>>

\* line 17: YOLO(model_path) is entered
CallLoadByPath ==
    /\ pc = "load_path"
    /\ trace' = Append(trace, LoadCall(LoadArgLocal))
    /\ pc' = "in_load"
    /\ UNCHANGED <<cwd, dirs, files, installed, exists, model, result,
                   exports, run, history>>

\* The argument of the load call in progress
PendingArg == trace[Len(trace)].val

\* lines 14/17: the loader returns a handle.  A weights file that is present
\* is read; a bare identifier that is absent is fetched into the working
\* directory first.
LoadSucceeds ==
    /\ pc = "in_load"
    /\ LET w == Resolve(cwd, PendingArg) IN
         /\ w \in files \/ ~IsAbs(PendingArg)
         /\ files' = files \cup {w}
         /\ model' = [type |-> "YOLO", weights |-> w]
    /\ trace' = Append(trace, LoadReturn)
    /\ pc' = "print_loaded"
    /\ UNCHANGED <<cwd, dirs, installed, exists, result, exports, run, history>>

\* A slip in which a failed load-by-path is caught and the download is tried
LoadFailsFallsBack ==
    /\ pc = "in_load"
    /\ trace' = Append(trace, LoadRaise)
    /\ pc' = IF trace[Len(trace)].val = model_path
               THEN "print_not_found" ELSE "aborted"
    /\ UNCHANGED <<cwd, dirs, files, installed, exists, model, result,
                   exports, run, history>>

\* lines 14/17: the loader raises (missing or corrupt file, failed download);
\* nothing catches it
LoadFails ==
    /\ pc = "in_load"
    /\ trace' = Append(trace, LoadRaise)
    /\ pc' = "aborted"
    /\ UNCHANGED <<cwd, dirs, files, installed, exists, model, result,
                   exports, run, history>>

\* line 19
PrintLoaded ==
    /\ pc = "print_loaded"
    /\ trace' = Append(trace, PrintLine("Loaded model: ", <<model.type>>))
    /\ pc' = "export"
    /\ UNCHANGED <<cwd, dirs, files, installed, exists, model, result,
                   exports, run, history>>

\* lines 23-29: model.export(...) is entered
CallExport ==
    /\ pc = "export"
    /\ trace' = Append(trace, ExportCall)
    /\ exports' = Append(exports, ExportConfig)
    /\ pc' = "in_export"
    /\ UNCHANGED <<cwd, dirs, files, installed, exists, model, result,
                   run, history>>

\* A slip in which the run ends without reporting the export
ExportSucceedsUnreported ==
    /\ pc = "in_export"
    /\ files' = files \cup {OnnxOf(model.weights)}
    /\ result' = OnnxOf(model.weights)
    /\ trace' = Append(trace, ExportReturn)
    /\ pc' = "done"
    /\ UNCHANGED <<cwd, dirs, installed, exists, model, exports, run, history>>

\* lines 23-29: the exporter writes the artifact and returns where it is
ExportSucceeds ==
    /\ pc = "in_export"
    /\ files' = files \cup {OnnxOf(model.weights)}
    /\ result' = OnnxOf(model.weights)
    /\ trace' = Append(trace, ExportReturn)
    /\ pc' = "print_complete"
    /\ UNCHANGED <<cwd, dirs, installed, exists, model, exports, run, history>>

\* lines 23-29: the exporter raises; nothing catches it
ExportFails ==
    /\ pc = "in_export"
    /\ trace' = Append(trace, ExportRaise)
    /\ pc' = "aborted"
    /\ UNCHANGED <<cwd, dirs, files, installed, exists, model, result,
                   exports, run, history>>

\* line 31
PrintComplete ==
    /\ pc = "print_complete"
    /\ trace' = Append(trace, PrintLine("Export complete! Result: ", result))
    /\ pc' = "done"
    /\ UNCHANGED <<cwd, dirs, files, installed, exists, model, result,
                   exports, run, history>>

\* What a finished run leaves in the history
Summary ==
    [outcome |-> pc, exists |-> exists, trace |-> trace, exports |-> exports]

\* The process ends and the script is started again: only the filesystem
\* (and the installed packages) are carried over.
Rerun ==
    /\ pc \in {"done", "aborted"}
    /\ run < MaxRuns
    /\ history' = Append(history, Summary)
    /\ run' = run + 1
    /\ cwd' \in LaunchDirs \cap dirs
    /\ pc' = "chdir"
    /\ exists' = "unchecked"
    /\ model' = NoModel
    /\ result' = NoResult
    /\ trace' = <<>>
    /\ exports' = <<>>
    /\ UNCHANGED <<dirs, files, installed>>

Next ==
    \/ Chdir
    \/ Import
    \/ Check
    \/ PrintNotFound
    \/ PrintDownloading
    \/ PrintLoading
    \/ CallLoadById
    \/ CallLoadByPath
    \/ LoadSucceeds
    \/ LoadFails
    \/ PrintLoaded
    \/ CallExport
    \/ ExportSucceeds
    \/ ExportFails
    \/ PrintComplete
    \/ Rerun

Spec == Init /\ [][Next]_vars

----------------------------------------------------------------------------
\* Reading a run's events

Positions(t, kind) == {i \in DOMAIN t : t[i].ev = kind}
LoadCalls(t, arg) == {i \in DOMAIN t : t[i].ev = "load" /\ t[i].val = arg}
Prints(t, text) == {i \in DOMAIN t : t[i].ev = "print" /\ t[i].text = text}
PrintsOf(t, text, val) == {i \in Prints(t, text) : t[i].val = val}

\* Positions of the script before the load call of either branch
BeforeLoadCall ==
    {"chdir", "import", "check", "print_not_found", "print_downloading",
     "print_loading", "load_id", "load_path"}

RunEnded == pc \in {"done", "aborted"}

----------------------------------------------------------------------------
\* C1: in a run whose existence check found the checkpoint, the loader is
\* called exactly once with the checkpoint path and never with the symbolic
\* identifier 'FastSAM-x.pt'.
C1_LoadByPathWhenPresent ==
    exists = "present" =>
        /\ LoadCalls(trace, <<"FastSAM-x.pt">>) = {}
        /\ Cardinality(LoadCalls(trace, model_path)) <= 1
        /\ pc \notin BeforeLoadCall =>
               Cardinality(LoadCalls(trace, model_path)) = 1

C1_Witness ==
    /\ exists = "present"
    /\ pc = "done"
    /\ Cardinality(LoadCalls(trace, model_path)) = 1

\* C2: in a run whose existence check did not find the checkpoint, the loader
\* is called exactly once with the symbolic identifier and never with the
\* checkpoint path.
C2_LoadByIdWhenAbsent ==
    exists = "absent" =>
        /\ LoadCalls(trace, model_path) = {}
        /\ Cardinality(LoadCalls(trace, <<"FastSAM-x.pt">>)) <= 1
        /\ pc \notin BeforeLoadCall =>
               Cardinality(LoadCalls(trace, <<"FastSAM-x.pt">>)) = 1

C2_Witness ==
    /\ exists = "absent"
    /\ pc = "done"
    /\ Cardinality(LoadCalls(trace, <<"FastSAM-x.pt">>)) = 1

\* The configuration the specification fixes for every export call
FixedConfiguration ==
    [format |-> "onnx", imgsz |-> 1024, opset |-> 17,
     simplify |-> FALSE, dynamic |-> FALSE]

\* C3: every export call, of this run and of every earlier run, on either
\* branch, passes exactly {onnx, 1024, 17, simplify off, dynamic off}.
C3_ExportConfigurationFixed ==
    /\ \A i \in DOMAIN exports : exports[i] = FixedConfiguration
    /\ \A r \in DOMAIN history :
          \A i \in DOMAIN history[r].exports :
             history[r].exports[i] = FixedConfiguration
    /\ Len(exports) = Cardinality(Positions(trace, "export"))

\* An export call was made on the download branch in an earlier run and one
\* on the load-by-path branch in this run.
C3_Witness ==
    /\ exists = "present"
    /\ Len(exports) = 1
    /\ \E r \in DOMAIN history :
          history[r].exists = "absent" /\ Len(history[r].exports) = 1

\* C4 as stated: a run in which the load returned makes exactly one export
\* call and prints exactly one "Export complete" line.
C4_AsStated ==
    (RunEnded /\ Positions(trace, "load_return") # {}) =>
        /\ Cardinality(Positions(trace, "export")) = 1
        /\ Cardinality(Prints(trace, "Export complete! Result: ")) = 1

\* C4 amended: a run in which the load returned makes exactly one export
\* call; it prints exactly one "Export complete" line, carrying the export's
\* result, when that call returns and none when it raises.  No export call
\* and no "Export complete" line occurs without a returned load.
C4_OneExportAfterLoad ==
    /\ Cardinality(Positions(trace, "export")) <= 1
    /\ Cardinality(Prints(trace, "Export complete! Result: ")) <= 1
    /\ Positions(trace, "load_return") = {} =>
          /\ Positions(trace, "export") = {}
          /\ Prints(trace, "Export complete! Result: ") = {}
    /\ (RunEnded /\ Positions(trace, "load_return") # {}) =>
          /\ Cardinality(Positions(trace, "export")) = 1
          /\ Positions(trace, "export_return") # {} =>
                Cardinality(PrintsOf(trace, "Export complete! Result: ",
                                     result)) = 1
          /\ Positions(trace, "export_raise") # {} =>
                Prints(trace, "Export complete! Result: ") = {}
          /\ Positions(trace, "export_return") # {}
                \/ Positions(trace, "export_raise") # {}

C4_Witness ==
    /\ pc = "done"
    /\ Positions(trace, "load_return") # {}
    /\ Cardinality(Positions(trace, "export")) = 1
    /\ Cardinality(Prints(trace, "Export complete! Result: ")) = 1

\* The print events of a run, in order
RECURSIVE Printed(_)
Printed(t) ==
    IF t = <<>> THEN <<>>
    ELSE IF Head(t).ev = "print" THEN <<Head(t)>> \o Printed(Tail(t))
    ELSE Printed(Tail(t))

\* C5 as stated: a completed run prints four lines, on either branch.
C5_AsStated == pc = "done" => Len(Printed(trace)) = 4

\* C5 amended: a completed run on the file-absent branch prints four lines
\* (not found, downloading, loaded model, export complete); a completed run
\* on the file-exists branch prints three (loading from, loaded model, export
\* complete), one line standing for path status and load intent together.
C5_DiagnosticLines ==
    pc = "done" =>
        /\ exists = "absent" =>
              Printed(trace) =
                 << PrintLine("Model not found at ", model_path),
                    PrintLine("Downloading FastSAM-x.pt...", <<>>),
                    PrintLine("Loaded model: ", <<"YOLO">>),
                    PrintLine("Export complete! Result: ", result) >>
        /\ exists = "present" =>
              Printed(trace) =
                 << PrintLine("Loading model from: ", model_path),
                    PrintLine("Loaded model: ", <<"YOLO">>),
                    PrintLine("Export complete! Result: ", result) >>

\* A completed run on each branch has been seen.
C5_Witness ==
    /\ pc = "done"
    /\ exists = "present"
    /\ Len(Printed(trace)) = 3
    /\ \E r \in DOMAIN history :
          /\ history[r].outcome = "done"
          /\ history[r].exists = "absent"
          /\ Len(Printed(history[r].trace)) = 4

\* C6: the branch's lines come before the load call ("Loading model from"
\* when the file exists; "Model not found at" then "Downloading" when it does
\* not); "Loaded model" comes after the load returns and before the export
\* call; no export call precedes a returned load.
C6_EventOrder ==
    /\ \A l \in Positions(trace, "load") :
          /\ exists = "present" =>
                \E p \in PrintsOf(trace, "Loading model from: ", model_path) :
                   p < l
          /\ exists = "absent" =>
                \E p \in PrintsOf(trace, "Model not found at ", model_path) :
                   \E q \in Prints(trace, "Downloading FastSAM-x.pt...") :
                      p < q /\ q < l
    /\ \A p \in Prints(trace, "Loaded model: ") :
          /\ \E r \in Positions(trace, "load_return") : r < p
          /\ \A e \in Positions(trace, "export") : p < e
    /\ \A e \in Positions(trace, "export") :
          /\ \E r \in Positions(trace, "load_return") : r < e
          /\ \E p \in Prints(trace, "Loaded model: ") : p < e

\* Both branches have run as far as the export call.
C6_Witness ==
    /\ exists = "present"
    /\ Positions(trace, "export") # {}
    /\ Prints(trace, "Loaded model: ") # {}
    /\ \E r \in DOMAIN history :
          history[r].exists = "absent" /\ Positions(history[r].trace, "export") # {}

\* C7: a load that raises ends the run: no "Loaded model" line, no export
\* call, no "Export complete" line and no second load call (no fallback to
\* the other way of loading); an export that raises ends the run: no "Export
\* complete" line and no second export call.
C7_FailuresAbort ==
    /\ Positions(trace, "load_raise") # {} =>
          /\ pc = "aborted"
          /\ trace[Len(trace)].ev = "load_raise"
          /\ Cardinality(Positions(trace, "load")) = 1
          /\ Prints(trace, "Loaded model: ") = {}
          /\ Positions(trace, "export") = {}
          /\ Prints(trace, "Export complete! Result: ") = {}
    /\ Positions(trace, "export_raise") # {} =>
          /\ pc = "aborted"
          /\ trace[Len(trace)].ev = "export_raise"
          /\ Cardinality(Positions(trace, "export")) = 1
          /\ Prints(trace, "Export complete! Result: ") = {}

\* A failed load-by-path and, in an earlier run, a failed export were seen.
C7_Witness ==
    /\ pc = "aborted"
    /\ Positions(trace, "load_raise") # {}
    /\ LoadCalls(trace, model_path) # {}
    /\ \E r \in DOMAIN history : Positions(history[r].trace, "export_raise") # {}

\* C8: when the run before this one found the checkpoint, this run finds it
\* too and behaves the same: it starts with the same line and the same
\* load-by-path call, never loads by identifier, exports after a returned
\* load, and two such runs that both complete produce the same events.
C8_IdempotentWhenPresent ==
    (history # <<>> /\ history[Len(history)].exists = "present") =>
        LET prev == history[Len(history)] IN
        /\ exists \in {"unchecked", "present"}
        /\ RunEnded => exists = "present"
        /\ LoadCalls(trace, <<"FastSAM-x.pt">>) = {}
        /\ pc \notin BeforeLoadCall =>
              /\ Len(trace) >= 2
              /\ SubSeq(trace, 1, 2) = SubSeq(prev.trace, 1, 2)
              /\ trace[2] = LoadCall(model_path)
        /\ (RunEnded /\ Positions(trace, "load_return") # {}) =>
              Cardinality(Positions(trace, "export")) = 1
        /\ (pc = "done" /\ prev.outcome = "done") => trace = prev.trace

C8_Witness ==
    /\ history # <<>>
    /\ history[Len(history)].exists = "present"
    /\ history[Len(history)].outcome = "done"
    /\ pc = "done"
    /\ exists = "present"

\* C9: the working directory is the parent of the checkpoint path when the
\* existence check is made, so a run that took the download branch and
\* completed is followed only by runs that find the checkpoint and load it
\* by path; the download branch is taken by at most one completed run.
C9_DownloadAtMostOnce ==
    /\ Dirname(model_path) = chdir_target
    /\ pc \notin {"chdir", "aborted"} => cwd = Dirname(model_path)
    /\ (\E r \in DOMAIN history :
           history[r].exists = "absent" /\ history[r].outcome = "done") =>
          /\ exists \in {"unchecked", "present"}
          /\ RunEnded => exists = "present"
          /\ LoadCalls(trace, <<"FastSAM-x.pt">>) = {}
          /\ pc \notin BeforeLoadCall => LoadCalls(trace, model_path) # {}
    /\ \A r, s \in DOMAIN history :
          (/\ r < s
           /\ history[r].exists = "absent"
           /\ history[r].outcome = "done") => history[s].exists = "present"
    /\ Cardinality({r \in DOMAIN history :
                       history[r].exists = "absent"
                       /\ history[r].outcome = "done"}) <= 1

C9_Witness ==
    /\ history # <<>>
    /\ history[Len(history)].exists = "absent"
    /\ history[Len(history)].outcome = "done"
    /\ exists = "present"
    /\ pc = "done"

\* C10: when the models directory is missing the run ends at the change of
\* directory: the existence check is never made, nothing is printed and no
\* load or export call is made.
C10_MissingDirectoryAborts ==
    chdir_target \notin dirs =>
        /\ pc \in {"chdir", "aborted"}
        /\ exists = "unchecked"
        /\ trace = <<>>
        /\ exports = <<>>

C10_Witness ==
    /\ chdir_target \notin dirs
    /\ pc = "aborted"

====
